---- MODULE Spec2Model ----
(***************************************************************************)
(* Model of the real-time scoring pipeline of the fraud detection system:  *)
(* RealTimeFraudProcessor (src/real_time_processor.py), the Store          *)
(* FraudDatabase (src/database.py), the classifier's availability gate     *)
(* (src/fraud_detection_model.py) and the reputation fusion                *)
(* FraudDatabaseManager (src/integrations/fraud_databases.py).             *)
(*                                                                         *)
(* Probabilities and risk scores are fixed-point numbers: ONE stands for   *)
(* 1.0, so 0.3 is 3000 and 0.7 is 7000.  All inputs are drawn on grids     *)
(* that make every product with a weight (0.6, 0.4, 0.3, 0.5) exact.       *)
(***************************************************************************)
EXTENDS Integers, Sequences, FiniteSets, TLC

\* ------------------------------------------------------------------ bounds
\* Threads started by start(): the code starts 5 scoring and 2 alert threads.
max_processing_threads == 2
max_alert_threads == 2
\* Items pulled per batch (the code pulls up to 10).
batch_size == 2
\* Number of add_transaction calls in a run.
MaxEnqueue == 2
\* Distinct transaction identifiers a producer may submit.
NumIds == 2

Workers == 1..max_processing_threads
AlertWorkers == 1..max_alert_threads
Ids == 1..NumIds
\* The one user of the model's events.
User == 1
\* A missing field of an event (dict.get returns None).
None == 0
\* Events a producer submits: well-formed ones, one without user_id and one
\* without transaction_id.
Events == {[transaction_id |-> id, user_id |-> User] : id \in Ids}
          \cup {[transaction_id |-> 1, user_id |-> None],
                [transaction_id |-> None, user_id |-> User]}

\* ------------------------------------------------------------- fixed point
ONE == 10000
Min(a, b) == IF a < b THEN a ELSE b
\* x * (n/10), the product with a one-decimal weight.
Times(x, n) == (x * n) \div 10


\* ------------------------------------------------------------------- state
VARIABLES
  running,              \* self.running
  started,              \* start() has been called (threads exist)
  is_trained,           \* self.fraud_detector.is_trained
  transaction_queue,    \* self.transaction_queue (FIFO of events)
  alert_queue,          \* self.alert_queue (FIFO of alert_data)
  pc,                   \* position of each scoring thread
  batch,                \* each scoring thread's local list `transactions`
  result,               \* each scoring thread's combined_result
  reg,                  \* value a scoring thread read for a pending +=
  apc,                  \* position of each alert thread
  alert_data,           \* the alert an alert thread holds
  transactions,         \* Store: rows of table transactions
  fraud_alerts,         \* Store: rows of table fraud_alerts
  processed_count,      \* self.processed_count
  fraud_detected_count, \* self.fraud_detected_count
  submitted,            \* history: the events given to add_transaction, in order
  delivered,            \* history: how often each token was handed to a scoring thread
  alerts_queued,        \* history: number of _queue_alert calls
  alerts_delivered,     \* history: how often each alert token was handed to an alert thread
  completed,            \* history: items that reached the statistics update
  fraud_completed,      \* history: those of them with is_fraud
  dropped,              \* history: number of items dropped by the except clause
  fusion,               \* inputs and output of the fusion functions alone
  sinks,                \* history: attempts made on the notification sinks
  periodic,             \* position of the statistics and the sync thread
  charges,              \* the sync thread's remaining `recent_charges`
  sync_log,             \* history: the sync thread's decisions
  telemetry,            \* values read and reported by the statistics readers
  pool                  \* number of threads of each kind inside their loop

vars == << running, started, is_trained, transaction_queue, alert_queue, pc,
           batch, result, reg, apc, alert_data, transactions, fraud_alerts,
           processed_count, fraud_detected_count, submitted, delivered,
           alerts_queued, alerts_delivered, completed, fraud_completed,
           dropped, fusion, sinks, periodic, charges, sync_log, telemetry,
           pool >>

NoResult == [is_fraud |-> FALSE, fraud_probability |-> 0, risk_level |-> "None"]
NoAlert == [token |-> 0, transaction_id |-> None, fraud_probability |-> 0]
NoFusion == [stage |-> "off"]
NoSinks == [email |-> 0, webhook |-> 0, webhook_failed |-> 0]
NoReading == [waiting |-> FALSE, fraud_detected_count |-> 0,
              processed_count |-> 0, fraud_rate_percent |-> 0]
NoThreads == [starts |-> 0, processing |-> 0, alert |-> 0, stats |-> 0,
              sync |-> 0]

\* ---------------------------------------------------------- risk scoring
\* _get_risk_level: thresholds 0.3 and 0.7.
LowThreshold == 3000
HighThreshold == 7000
GetRiskLevel(probability) ==
  IF probability < LowThreshold THEN "Low"
  ELSE IF probability < HighThreshold THEN "Medium"
  ELSE "High"

\* A reputation source's answer: Unconfigured (no credentials), Failed (the
\* call returned {'error': ...}) or the raw score 0..100 of the response.
Unconfigured == -2
Failed == -1
\* A local reputation table holds no row for the event's ip / email.
NoRow == -1

\* _process_maxmind_response / _process_sift_score: risk_score = raw / 100.
ProcessMaxmindResponse(raw) == raw * (ONE \div 100)
ProcessSiftScore(raw) == raw * (ONE \div 100)

\* _check_internal_reputation: ip_risk * 0.5 + email_risk * 0.3, capped at 1.
CheckInternalReputation(ip_risk, email_risk) ==
  LET s1 == IF ip_risk = NoRow THEN 0 ELSE Times(ip_risk, 5)
      s2 == IF email_risk = NoRow THEN s1 ELSE s1 + Times(email_risk, 3)
  IN  Min(s2, ONE)

\* Mutant of AnalyzeTransaction: the weights of the sources that answered
\* are renormalised to sum to 1.
AnalyzeTransactionRenormalized(user_id, src) ==
  LET m == IF src.maxmind >= 0
           THEN 4 * ProcessMaxmindResponse(src.maxmind) ELSE 0
      s == IF src.sift >= 0 /\ user_id # None
           THEN m + 3 * ProcessSiftScore(src.sift) ELSE m
      i == s + 3 * CheckInternalReputation(src.ip_risk, src.email_risk)
      w == (IF src.maxmind >= 0 THEN 4 ELSE 0)
           + (IF src.sift >= 0 /\ user_id # None THEN 3 ELSE 0) + 3
  IN  Min(i \div w, ONE)

\* Mutant of AnalyzeTransaction: a remote source that is not configured
\* counts with a neutral risk_score of 0.5.
AnalyzeTransactionNeutral(user_id, src) ==
  LET m == IF src.maxmind >= 0
           THEN Times(ProcessMaxmindResponse(src.maxmind), 4)
           ELSE IF src.maxmind = Unconfigured THEN Times(5000, 4) ELSE 0
      s == IF src.sift >= 0 /\ user_id # None
           THEN m + Times(ProcessSiftScore(src.sift), 3) ELSE m
      i == s + Times(CheckInternalReputation(src.ip_risk, src.email_risk), 3)
  IN  Min(i, ONE)

\* analyze_transaction: combined_risk_score of the external analysis.
\* src = [maxmind, sift, ip_risk, email_risk]; sift is asked for a user
\* score only when the event carries a user_id.
AnalyzeTransaction(user_id, src) ==
  LET m == IF src.maxmind >= 0
           THEN Times(ProcessMaxmindResponse(src.maxmind), 4) ELSE 0
      s == IF src.sift >= 0 /\ user_id # None
           THEN m + Times(ProcessSiftScore(src.sift), 3) ELSE m
      i == s + Times(CheckInternalReputation(src.ip_risk, src.email_risk), 3)
  IN  Min(i, ONE)

\* Mutant of CombineFraudResults: both weights 0.6.
CombineFraudResultsWeights(internal_probability, combined_risk_score) ==
  LET combined_score == Times(internal_probability, 6)
                        + Times(combined_risk_score, 6)
  IN  [is_fraud |-> combined_score > 5000,
       fraud_probability |-> combined_score,
       risk_level |-> GetRiskLevel(combined_score)]

\* Mutant of CombineFraudResults: is_fraud from >= 0.5.
CombineFraudResultsGe(internal_probability, combined_risk_score) ==
  LET combined_score == Times(internal_probability, 6)
                        + Times(combined_risk_score, 4)
  IN  [is_fraud |-> combined_score >= 5000,
       fraud_probability |-> combined_score,
       risk_level |-> GetRiskLevel(combined_score)]

\* _combine_fraud_results: internal * 0.6 + external * 0.4.
CombineFraudResults(internal_probability, combined_risk_score) ==
  LET combined_score == Times(internal_probability, 6)
                        + Times(combined_risk_score, 4)
  IN  [is_fraud |-> combined_score > 5000,
       fraud_probability |-> combined_score,
       risk_level |-> GetRiskLevel(combined_score)]

\* Answers of the collaborators a scoring thread may meet for one item.
NoSources == [maxmind |-> Unconfigured, sift |-> Unconfigured,
              ip_risk |-> NoRow, email_risk |-> NoRow]
AllSources == [maxmind |-> 100, sift |-> 100, ip_risk |-> ONE,
               email_risk |-> ONE]
\* <<classifier probability, reputation answers>> per item: combined 0 (Low),
\* 0.376 and 0.6 (Medium, the second is_fraud), 0.976 or 0.856 (High).
PipeAnswers == {<< 0, NoSources >>, << 0, AllSources >>, << ONE, NoSources >>,
                << ONE, AllSources >>}

\* ------------------------------------------------------------------ Store
\* Rows with the given transaction_id.
RowsOf(rows, id) == {i \in 1..Len(rows) : rows[i].transaction_id = id}

\* Mutant of InsertTransaction: INSERT OR REPLACE, the newer assessment
\* overwrites the stored one.
InsertOrReplace(rows, transaction_data, prediction_result) ==
  IF \/ transaction_data.transaction_id = None
     \/ transaction_data.user_id = None
  THEN rows
  ELSE LET new == [transaction_id |-> transaction_data.transaction_id,
                   user_id |-> transaction_data.user_id,
                   is_fraud |-> prediction_result.is_fraud,
                   fraud_probability |-> prediction_result.fraud_probability,
                   risk_level |-> prediction_result.risk_level]
       IN  IF RowsOf(rows, transaction_data.transaction_id) = {}
           THEN Append(rows, new)
           ELSE [i \in 1..Len(rows) |->
                   IF rows[i].transaction_id = new.transaction_id
                   THEN new ELSE rows[i]]

\* insert_transaction: INSERT into a table whose transaction_id is UNIQUE
\* NOT NULL and whose user_id is NOT NULL.  A violated constraint raises
\* sqlite3.IntegrityError, which the method catches (it returns None): the
\* table is left as it was.
InsertTransaction(rows, transaction_data, prediction_result) ==
  IF \/ transaction_data.transaction_id = None
     \/ transaction_data.user_id = None
     \/ RowsOf(rows, transaction_data.transaction_id) # {}
  THEN rows
  ELSE Append(rows, [transaction_id |-> transaction_data.transaction_id,
                     user_id |-> transaction_data.user_id,
                     is_fraud |-> prediction_result.is_fraud,
                     fraud_probability |-> prediction_result.fraud_probability,
                     risk_level |-> prediction_result.risk_level])

\* create_fraud_alert: INSERT into fraud_alerts (transaction_id NOT NULL; the
\* foreign key is declared but SQLite does not enforce it unless the
\* connection turns foreign_keys on, which the code never does).  The row
\* records whether the transaction was stored at that moment.
CreateFraudAlert(alerts, rows, a) ==
  Append(alerts, [transaction_id |-> a.transaction_id,
                  fraud_probability |-> a.fraud_probability,
                  txn_stored |-> RowsOf(rows, a.transaction_id) # {}])

\* ----------------------------------------------------------------- set-up
ProcessorInit ==
  /\ running = FALSE
  /\ started = FALSE
  /\ is_trained = FALSE
  /\ transaction_queue = << >>
  /\ alert_queue = << >>
  /\ pc = [w \in Workers |-> "unstarted"]
  /\ batch = [w \in Workers |-> << >>]
  /\ result = [w \in Workers |-> NoResult]
  /\ reg = [w \in Workers |-> 0]
  /\ apc = [a \in AlertWorkers |-> "unstarted"]
  /\ alert_data = [a \in AlertWorkers |-> NoAlert]
  /\ processed_count = 0
  /\ fraud_detected_count = 0
  /\ submitted = << >>
  /\ delivered = [t \in 1..MaxEnqueue |-> 0]
  /\ alerts_queued = 0
  /\ alerts_delivered = [t \in 1..MaxEnqueue |-> 0]
  /\ completed = 0
  /\ fraud_completed = 0
  /\ dropped = 0
  /\ sinks = NoSinks
  /\ periodic = [stats |-> "unstarted", sync |-> "unstarted"]
  /\ charges = << >>
  /\ sync_log = << >>
  /\ telemetry = [periodic_stats |-> NoReading, get_statistics |-> NoReading]
  /\ pool = NoThreads

\* The Store as init_database() creates it: both tables empty.
PipelineInit ==
  /\ ProcessorInit
  /\ transactions = << >>
  /\ fraud_alerts = << >>

Init == PipelineInit /\ fusion = NoFusion

qvars == << transaction_queue, alert_queue >>
wvars == << pc, batch, result, reg >>
avars == << apc, alert_data >>
svars == << transactions, fraud_alerts >>
cvars == << processed_count, fraud_detected_count >>
hvars == << submitted, delivered, alerts_queued, alerts_delivered, completed,
            fraud_completed, dropped >>
xvars == << sinks >>
pvars == << periodic, charges, sync_log >>
tvars == << telemetry, pool >>

\* The threads one start() call adds: max_processing_threads scoring
\* threads, max_alert_threads alert threads, a statistics and a sync thread.
Spawned(p) ==
  [starts |-> p.starts + 1,
   processing |-> p.processing + max_processing_threads,
   alert |-> p.alert + max_alert_threads,
   stats |-> p.stats + 1,
   sync |-> p.sync + 1]

\* start(): sets the flag and starts the scoring threads, the alert threads
\* and the two periodic threads; it tests nothing first.  The application
\* calls it once, right after constructing the processor.
Start ==
  /\ ~started
  /\ started' = TRUE
  /\ running' = TRUE
  /\ pc' = [w \in Workers |-> "loop"]
  /\ apc' = [a \in AlertWorkers |-> "loop"]
  /\ periodic' = [stats |-> "loop", sync |-> "loop"]
  /\ pool' = Spawned(pool)
  /\ UNCHANGED << is_trained, qvars, batch, result, reg, alert_data, svars,
                  cvars, hvars, fusion, xvars, charges, sync_log, telemetry >>

\* stop(): clears the flag; it joins no thread and empties no queue.
Stop ==
  /\ running
  /\ running' = FALSE
  /\ UNCHANGED << started, is_trained, qvars, wvars, avars, svars, cvars,
                  hvars, fusion, xvars, pvars, tvars >>

\* load_models() on the processor's classifier, as part of setting the
\* processor up: the files are found.
LoadModels ==
  /\ ~started
  /\ ~is_trained
  /\ is_trained' = TRUE
  /\ UNCHANGED << running, started, qvars, wvars, avars, svars, cvars, hvars,
                  fusion, xvars, pvars, tvars >>

\* add_transaction(transaction_data): Queue.put on an unbounded queue.
AddTransaction(id, user) ==
  /\ Len(submitted) < MaxEnqueue
  /\ submitted' = Append(submitted, [transaction_id |-> id, user_id |-> user])
  /\ transaction_queue' = Append(transaction_queue,
        [token |-> Len(submitted) + 1, transaction_id |-> id,
         user_id |-> user])
  /\ UNCHANGED << running, started, is_trained, alert_queue, wvars, avars,
                  svars, cvars, delivered, alerts_queued, alerts_delivered,
                  completed, fraud_completed, dropped, fusion, xvars, pvars, tvars >>

\* ------------------------------------------------- scoring threads
\* Mutant of WorkerLoop: `while True:`, the flag is not tested.
WorkerLoopForever(w) ==
  /\ pc[w] = "loop"
  /\ pc' = [pc EXCEPT ![w] = "fill"]
  /\ batch' = [batch EXCEPT ![w] = << >>]
  /\ UNCHANGED << running, started, is_trained, qvars, result, reg, avars,
                  svars, cvars, hvars, fusion, xvars, pvars, tvars >>

\* _process_transactions, `while self.running:` and `transactions = []`.
WorkerLoop(w) ==
  /\ pc[w] = "loop"
  /\ IF running
     THEN /\ pc' = [pc EXCEPT ![w] = "fill"]
          /\ batch' = [batch EXCEPT ![w] = << >>]
     ELSE /\ pc' = [pc EXCEPT ![w] = "stopped"]
          /\ UNCHANGED batch
  /\ pool' = IF running THEN pool ELSE [pool EXCEPT !.processing = @ - 1]
  /\ UNCHANGED << running, started, is_trained, qvars, result, reg, avars,
                  svars, cvars, hvars, fusion, xvars, pvars, telemetry >>

\* One iteration of `for _ in range(self.batch_size)`: the emptiness test.
\* Every earlier iteration appended one item, so the loop has run
\* Len(batch) times.  After the loop: a batch goes to
\* _process_transaction_batch, no batch means time.sleep and the next round.
WorkerCheckEmpty(w) ==
  /\ pc[w] = "fill"
  /\ pc' = [pc EXCEPT ![w] =
        IF Len(batch[w]) < batch_size /\ transaction_queue # << >>
        THEN "get"
        ELSE IF batch[w] # << >> THEN "process" ELSE "loop"]
  /\ UNCHANGED << running, started, is_trained, qvars, batch, result, reg,
                  avars, svars, cvars, hvars, fusion, xvars, pvars, tvars >>

\* Mutant of WorkerGet: the item is read but left in the queue.
WorkerGetPeek(w) ==
  /\ pc[w] = "get"
  /\ transaction_queue # << >>
  /\ batch' = [batch EXCEPT ![w] = Append(@, Head(transaction_queue))]
  /\ delivered' = [delivered EXCEPT ![Head(transaction_queue).token] = @ + 1]
  /\ pc' = [pc EXCEPT ![w] = "fill"]
  /\ UNCHANGED << running, started, is_trained, qvars, result, reg,
                  avars, svars, cvars, submitted, alerts_queued,
                  alerts_delivered, completed, fraud_completed, dropped,
                  fusion, xvars, pvars, tvars >>

\* `self.transaction_queue.get()`: Queue.get() with no timeout waits until
\* an item is available, then removes and returns the oldest one.
WorkerGet(w) ==
  /\ pc[w] = "get"
  /\ transaction_queue # << >>
  /\ batch' = [batch EXCEPT ![w] = Append(@, Head(transaction_queue))]
  /\ transaction_queue' = Tail(transaction_queue)
  /\ delivered' = [delivered EXCEPT ![Head(transaction_queue).token] = @ + 1]
  /\ pc' = [pc EXCEPT ![w] = "fill"]
  /\ UNCHANGED << running, started, is_trained, alert_queue, result, reg,
                  avars, svars, cvars, submitted, alerts_queued,
                  alerts_delivered, completed, fraud_completed, dropped,
                  fusion, xvars, pvars, tvars >>

\* The position after the current item of the batch is finished or dropped.
AfterItem(w) == IF Len(batch[w]) > 1 THEN "process" ELSE "loop"

\* Mutant of WorkerScore: the try block encloses the whole for loop, so a
\* failing item ends the batch.
WorkerScoreOuterCatch(w) ==
  /\ pc[w] = "process"
  /\ IF ~is_trained
     THEN /\ dropped' = dropped + 1
          /\ batch' = [batch EXCEPT ![w] = << >>]
          /\ pc' = [pc EXCEPT ![w] = "loop"]
          /\ UNCHANGED result
     ELSE /\ \E ans \in PipeAnswers :
               result' = [result EXCEPT ![w] = CombineFraudResults(ans[1],
                            AnalyzeTransaction(Head(batch[w]).user_id, ans[2]))]
          /\ pc' = [pc EXCEPT ![w] = "persist"]
          /\ UNCHANGED << batch, dropped >>
  /\ UNCHANGED << running, started, is_trained, qvars, reg, avars, svars,
                  cvars, submitted, delivered, alerts_queued, alerts_delivered,
                  completed, fraud_completed, fusion, xvars, pvars, tvars >>

\* Mutant of WorkerScore: the alert test comes right after the scoring, the
\* insert is left out.
WorkerScoreThenAlert(w) ==
  /\ pc[w] = "process"
  /\ IF ~is_trained
     THEN /\ dropped' = dropped + 1
          /\ batch' = [batch EXCEPT ![w] = Tail(@)]
          /\ pc' = [pc EXCEPT ![w] = AfterItem(w)]
          /\ UNCHANGED result
     ELSE /\ \E ans \in PipeAnswers :
               result' = [result EXCEPT ![w] = CombineFraudResults(ans[1],
                            AnalyzeTransaction(Head(batch[w]).user_id, ans[2]))]
          /\ pc' = [pc EXCEPT ![w] = "alert"]
          /\ UNCHANGED << batch, dropped >>
  /\ UNCHANGED << running, started, is_trained, qvars, reg, avars, svars,
                  cvars, submitted, delivered, alerts_queued, alerts_delivered,
                  completed, fraud_completed, fusion, xvars, pvars, tvars >>

\* _process_transaction_batch, lines 109-118 for the next item: enrich,
\* predict_fraud, analyze_transaction, _combine_fraud_results.  predict_fraud
\* raises when the classifier is not trained; the except clause of the item
\* logs and the loop goes on with the next item.
WorkerScore(w) ==
  /\ pc[w] = "process"
  /\ IF ~is_trained
     THEN /\ dropped' = dropped + 1
          /\ batch' = [batch EXCEPT ![w] = Tail(@)]
          /\ pc' = [pc EXCEPT ![w] = AfterItem(w)]
          /\ UNCHANGED result
     ELSE /\ \E ans \in PipeAnswers :
               result' = [result EXCEPT ![w] = CombineFraudResults(ans[1],
                            AnalyzeTransaction(Head(batch[w]).user_id, ans[2]))]
          /\ pc' = [pc EXCEPT ![w] = "persist"]
          /\ UNCHANGED << batch, dropped >>
  /\ UNCHANGED << running, started, is_trained, qvars, reg, avars, svars,
                  cvars, submitted, delivered, alerts_queued, alerts_delivered,
                  completed, fraud_completed, fusion, xvars, pvars, tvars >>

\* line 121: self.db.insert_transaction(enriched_data, combined_result); its
\* return value is not looked at.
WorkerPersist(w) ==
  /\ pc[w] = "persist"
  /\ transactions' = InsertTransaction(transactions, Head(batch[w]), result[w])
  /\ pc' = [pc EXCEPT ![w] = "alert"]
  /\ UNCHANGED << running, started, is_trained, qvars, batch, result, reg,
                  avars, fraud_alerts, cvars, hvars, fusion, xvars, pvars, tvars >>

\* _queue_alert: the alert_data put on the alert queue.
QueueAlert(q, n, transaction_data, fraud_result) ==
  Append(q, [token |-> n,
             transaction_id |-> transaction_data.transaction_id,
             fraud_probability |-> fraud_result.fraud_probability])

\* Mutant of NeedsAlert: alert on the fraud label instead of the level.
NeedsAlertIsFraud(combined_result) == combined_result.is_fraud

\* lines 124-125: the alert test.
NeedsAlert(combined_result) == combined_result.risk_level = "High"

WorkerAlert(w) ==
  /\ pc[w] = "alert"
  /\ IF NeedsAlert(result[w])
     THEN /\ alert_queue' = QueueAlert(alert_queue, alerts_queued + 1,
                                       Head(batch[w]), result[w])
          /\ alerts_queued' = alerts_queued + 1
     ELSE UNCHANGED << alert_queue, alerts_queued >>
  /\ pc' = [pc EXCEPT ![w] = "count"]
  /\ UNCHANGED << running, started, is_trained, transaction_queue, batch,
                  result, reg, avars, svars, cvars, submitted, delivered,
                  alerts_delivered, completed, fraud_completed, dropped,
                  fusion, xvars, pvars, tvars >>

\* line 128, `self.processed_count += 1`: the attribute is loaded ...
WorkerReadProcessed(w) ==
  /\ pc[w] = "count"
  /\ reg' = [reg EXCEPT ![w] = processed_count]
  /\ pc' = [pc EXCEPT ![w] = "count_store"]
  /\ UNCHANGED << running, started, is_trained, qvars, batch, result, avars,
                  svars, cvars, hvars, fusion, xvars, pvars, tvars >>

\* The value a thread stores back for `+= 1`.
Incremented(current, loaded) == loaded + 1

\* ... and the sum is stored back; no lock is held in between.
WorkerWriteProcessed(w) ==
  /\ pc[w] = "count_store"
  /\ processed_count' = Incremented(processed_count, reg[w])
  /\ completed' = completed + 1
  /\ IF result[w].is_fraud
     THEN /\ pc' = [pc EXCEPT ![w] = "fraud"]
          /\ UNCHANGED << batch, result >>
     ELSE /\ pc' = [pc EXCEPT ![w] = AfterItem(w)]
          /\ batch' = [batch EXCEPT ![w] = Tail(@)]
          /\ result' = [result EXCEPT ![w] = NoResult]
  /\ reg' = [reg EXCEPT ![w] = 0]
  /\ UNCHANGED << running, started, is_trained, qvars, avars, svars,
                  fraud_detected_count, submitted, delivered, alerts_queued,
                  alerts_delivered, fraud_completed, dropped, fusion, xvars, pvars, tvars >>

\* line 130, `self.fraud_detected_count += 1`: load ...
WorkerReadFraud(w) ==
  /\ pc[w] = "fraud"
  /\ reg' = [reg EXCEPT ![w] = fraud_detected_count]
  /\ pc' = [pc EXCEPT ![w] = "fraud_store"]
  /\ UNCHANGED << running, started, is_trained, qvars, batch, result, avars,
                  svars, cvars, hvars, fusion, xvars, pvars, tvars >>

\* ... and store; the item is finished.
WorkerWriteFraud(w) ==
  /\ pc[w] = "fraud_store"
  /\ fraud_detected_count' = Incremented(fraud_detected_count, reg[w])
  /\ fraud_completed' = fraud_completed + 1
  /\ pc' = [pc EXCEPT ![w] = AfterItem(w)]
  /\ batch' = [batch EXCEPT ![w] = Tail(@)]
  /\ result' = [result EXCEPT ![w] = NoResult]
  /\ reg' = [reg EXCEPT ![w] = 0]
  /\ UNCHANGED << running, started, is_trained, qvars, avars, svars,
                  processed_count, submitted, delivered, alerts_queued,
                  alerts_delivered, completed, dropped, fusion, xvars, pvars, tvars >>

\* --------------------------------------------------- alert threads
\* _process_alerts, `while self.running:`.
AlertLoop(a) ==
  /\ apc[a] = "loop"
  /\ apc' = [apc EXCEPT ![a] = IF running THEN "check" ELSE "stopped"]
  /\ pool' = IF running THEN pool ELSE [pool EXCEPT !.alert = @ - 1]
  /\ UNCHANGED << running, started, is_trained, qvars, wvars, alert_data,
                  svars, cvars, hvars, fusion, xvars, pvars, telemetry >>

\* `if not self.alert_queue.empty():`, else time.sleep(1) and the next round.
AlertCheckEmpty(a) ==
  /\ apc[a] = "check"
  /\ apc' = [apc EXCEPT ![a] = IF alert_queue # << >> THEN "get" ELSE "loop"]
  /\ UNCHANGED << running, started, is_trained, qvars, wvars, alert_data,
                  svars, cvars, hvars, fusion, xvars, pvars, tvars >>

\* `alert_data = self.alert_queue.get()`: waits until an item is available.
AlertGet(a) ==
  /\ apc[a] = "get"
  /\ alert_queue # << >>
  /\ alert_data' = [alert_data EXCEPT ![a] = Head(alert_queue)]
  /\ alert_queue' = Tail(alert_queue)
  /\ alerts_delivered' = [alerts_delivered EXCEPT ![Head(alert_queue).token] = @ + 1]
  /\ apc' = [apc EXCEPT ![a] = "send"]
  /\ UNCHANGED << running, started, is_trained, transaction_queue, wvars,
                  svars, cvars, submitted, delivered, alerts_queued, completed,
                  fraud_completed, dropped, fusion, xvars, pvars, tvars >>

\* Mutant of SendFraudAlert: the sinks are called before the alert is
\* stored, so that a raising webhook sink skips create_fraud_alert.
SendFraudAlertSinksFirst(alerts, rows, a, snk, webhook_raises) ==
  LET after_email == [snk EXCEPT !.email = @ + 1]
      after_webhook == [after_email EXCEPT
                          !.webhook = @ + 1,
                          !.webhook_failed = @ + (IF webhook_raises THEN 1 ELSE 0)]
  IN  IF webhook_raises \/ a.transaction_id = None
      THEN [fraud_alerts |-> alerts, sinks |-> after_webhook]
      ELSE [fraud_alerts |-> CreateFraudAlert(alerts, rows, a),
            sinks |-> after_webhook]

\* _send_fraud_alert, one try block: create_fraud_alert, then
\* _send_email_alert (a placeholder, `pass`), then _send_webhook_alert.  An
\* alert without transaction_id violates NOT NULL: the IntegrityError leaves
\* the block before any sink is called and nothing is stored.  The webhook
\* sink is last; whether it raises (os is not imported by the module), gets
\* an error from the POST or succeeds, the except clause only logs.
SendFraudAlert(alerts, rows, a, snk, webhook_raises) ==
  IF a.transaction_id = None
  THEN [fraud_alerts |-> alerts, sinks |-> snk]
  ELSE LET stored == CreateFraudAlert(alerts, rows, a)
           after_email == [snk EXCEPT !.email = @ + 1]
           after_webhook == [after_email EXCEPT
                               !.webhook = @ + 1,
                               !.webhook_failed = @ + (IF webhook_raises THEN 1 ELSE 0)]
       IN  [fraud_alerts |-> stored, sinks |-> after_webhook]

\* `self._send_fraud_alert(alert_data)` and the next round of the loop.
AlertSend(a) ==
  /\ apc[a] = "send"
  /\ \E webhook_raises \in BOOLEAN :
       LET sent == SendFraudAlert(fraud_alerts, transactions, alert_data[a],
                                  sinks, webhook_raises)
       IN  /\ fraud_alerts' = sent.fraud_alerts
           /\ sinks' = sent.sinks
  /\ alert_data' = [alert_data EXCEPT ![a] = NoAlert]
  /\ apc' = [apc EXCEPT ![a] = "loop"]
  /\ UNCHANGED << running, started, is_trained, qvars, wvars, transactions,
                  cvars, hvars, fusion, pvars, tvars >>

\* ------------------------------------------------------- specification
Next ==
  \/ Start
  \/ Stop
  \/ LoadModels
  \/ \E ev \in Events : AddTransaction(ev.transaction_id, ev.user_id)
  \/ \E w \in Workers :
       \/ WorkerLoop(w)
       \/ WorkerCheckEmpty(w)
       \/ WorkerGet(w)
       \/ WorkerScore(w)
       \/ WorkerPersist(w)
       \/ WorkerAlert(w)
       \/ WorkerReadProcessed(w)
       \/ WorkerWriteProcessed(w)
       \/ WorkerReadFraud(w)
       \/ WorkerWriteFraud(w)
  \/ \E a \in AlertWorkers :
       \/ AlertLoop(a)
       \/ AlertCheckEmpty(a)
       \/ AlertGet(a)
       \/ AlertSend(a)

Spec == Init /\ [][Next]_vars

\* ------------------------------------------- the fusion functions alone
\* Inputs of one scoring: the classifier's probability, the raw answers of
\* the two remote sources, the rows of the two local reputation tables and
\* whether the event carries a user_id.
GridProbs == {0, 2000, 5000, 7000, 9000, ONE}
GridRaw == {Unconfigured, Failed, 0, 50, 100}
GridRows == {NoRow, 0, 5000, ONE}
FusionInputs ==
  [stage : {"input"}, user_id : {None, User}, internal : GridProbs,
   maxmind : GridRaw, sift : GridRaw, ip_risk : GridRows,
   email_risk : GridRows]

FusionInit == PipelineInit /\ fusion \in FusionInputs

\* line 115: external_analysis = analyze_transaction(enriched_data).
FusionAnalyze ==
  /\ fusion.stage = "input"
  /\ fusion' = [stage |-> "analyzed", user_id |-> fusion.user_id,
                internal |-> fusion.internal,
                maxmind |-> fusion.maxmind, sift |-> fusion.sift,
                ip_risk |-> fusion.ip_risk,
                email_risk |-> fusion.email_risk,
                external |-> AnalyzeTransaction(fusion.user_id,
                   [maxmind |-> fusion.maxmind, sift |-> fusion.sift,
                    ip_risk |-> fusion.ip_risk,
                    email_risk |-> fusion.email_risk])]
  /\ UNCHANGED << running, started, is_trained, qvars, wvars, avars, svars,
                  cvars, hvars, xvars, pvars, tvars >>

\* line 118: combined_result = _combine_fraud_results(...).
FusionCombine ==
  /\ fusion.stage = "analyzed"
  /\ fusion' = [stage |-> "combined", user_id |-> fusion.user_id,
                internal |-> fusion.internal,
                maxmind |-> fusion.maxmind, sift |-> fusion.sift,
                ip_risk |-> fusion.ip_risk,
                email_risk |-> fusion.email_risk,
                external |-> fusion.external,
                combined_result |-> CombineFraudResults(fusion.internal,
                                                        fusion.external)]
  /\ UNCHANGED << running, started, is_trained, qvars, wvars, avars, svars,
                  cvars, hvars, xvars, pvars, tvars >>

FusionNext == FusionAnalyze \/ FusionCombine

SpecFusion == FusionInit /\ [][FusionNext]_vars

\* ------------------------------------------- the risk level alone
\* load_config reads LOW_RISK_THRESHOLD and HIGH_RISK_THRESHOLD from the
\* environment (defaults 0.3 and 0.7); _get_risk_level is then applied to a
\* probability.
GridLevels == {500 * k : k \in 0..20} \cup {2999, 6999}
ThresholdInputs ==
  [stage : {"configured"}, probability : GridLevels,
   low_risk_threshold : {2000, LowThreshold},
   high_risk_threshold : {HighThreshold, 8000}]

ThresholdInit == PipelineInit /\ fusion \in ThresholdInputs

\* line 249: 'risk_level': self._get_risk_level(combined_score).
RiskLevelApply ==
  /\ fusion.stage = "configured"
  /\ fusion' = [stage |-> "levelled", probability |-> fusion.probability,
                low_risk_threshold |-> fusion.low_risk_threshold,
                high_risk_threshold |-> fusion.high_risk_threshold,
                risk_level |-> GetRiskLevel(fusion.probability)]
  /\ UNCHANGED << running, started, is_trained, qvars, wvars, avars, svars,
                  cvars, hvars, xvars, pvars, tvars >>

SpecThreshold == ThresholdInit /\ [][RiskLevelApply]_vars

\* ------------------------------------------- the module run as a script
\* `if __name__ == "__main__":` starts the processor, submits its sample
\* transactions and calls stop() last: nothing is submitted after stop().
ScriptAddTransaction(id, user) == running /\ AddTransaction(id, user)

ScriptNext ==
  \/ Start
  \/ Stop
  \/ LoadModels
  \/ \E ev \in Events : ScriptAddTransaction(ev.transaction_id, ev.user_id)
  \/ \E w \in Workers :
       \/ WorkerLoop(w)
       \/ WorkerCheckEmpty(w)
       \/ WorkerGet(w)
       \/ WorkerScore(w)
       \/ WorkerPersist(w)
       \/ WorkerAlert(w)
       \/ WorkerReadProcessed(w)
       \/ WorkerWriteProcessed(w)
       \/ WorkerReadFraud(w)
       \/ WorkerWriteFraud(w)
  \/ \E a \in AlertWorkers :
       \/ AlertLoop(a)
       \/ AlertCheckEmpty(a)
       \/ AlertGet(a)
       \/ AlertSend(a)

SpecScript == Init /\ [][ScriptNext]_vars

\* ------------------------------------------- the periodic threads
\* The sync thread compares each charge with get_recent_transactions(limit):
\* the `limit` most recent rows (1000 in the code, scaled down here).
SyncLimit == 1
\* At most this many charges are examined in a run of the model.
MaxSyncLog == 3

\* A row stored by an earlier run of the application.
StoredRow(id) ==
  [transaction_id |-> id, user_id |-> User, is_fraud |-> FALSE,
   fraud_probability |-> 0, risk_level |-> "Low"]

\* The database file outlives the process: the Store a processor is
\* constructed on holds any rows with distinct transaction_ids.
StoreHistories ==
  {[i \in 1..Len(s) |-> StoredRow(s[i])] :
     s \in {q \in UNION {[1..n -> Ids] : n \in 0..NumIds} :
              \A i, j \in 1..Len(q) : q[i] = q[j] => i = j}}

\* get_recent_charges: the charges Stripe lists, none on a StripeError.
RecentCharges ==
  {q \in UNION {[1..n -> Ids] : n \in 0..2} :
     \A i, j \in 1..Len(q) : q[i] = q[j] => i = j}

PeriodicInit ==
  /\ ProcessorInit
  /\ transactions \in StoreHistories
  /\ fraud_alerts = << >>
  /\ fusion = NoFusion

\* get_recent_transactions(limit): ORDER BY timestamp DESC LIMIT ?.  Rows
\* are stamped when inserted, so these are the last `limit` rows.
GetRecentTransactions(rows, limit) ==
  IF Len(rows) <= limit THEN rows
  ELSE SubSeq(rows, Len(rows) - limit + 1, Len(rows))

\* _periodic_stats, `while self.running:`.
StatsLoop ==
  /\ periodic.stats = "loop"
  /\ periodic' = [periodic EXCEPT !.stats = IF running THEN "read"
                                           ELSE "stopped"]
  /\ pool' = IF running THEN pool ELSE [pool EXCEPT !.stats = @ - 1]
  /\ UNCHANGED << running, started, is_trained, qvars, wvars, avars, svars,
                  cvars, hvars, fusion, xvars, charges, sync_log, telemetry >>

\* fraud_rate = (self.fraud_detected_count / max(self.processed_count, 1))
\* * 100: the left operand is read first ...
ReadFraudDetected(reading, fraud) ==
  [reading EXCEPT !.waiting = TRUE, !.fraud_detected_count = fraud]

\* ... then the right one, and the rate is computed from the two values.
ReadProcessed(reading, processed) ==
  [reading EXCEPT
     !.waiting = FALSE,
     !.processed_count = processed,
     !.fraud_rate_percent =
        (reading.fraud_detected_count * 100)
          \div (IF processed > 1 THEN processed ELSE 1)]

\* _periodic_stats: time.sleep(60), then fraud_detected_count is read.
StatsReadFraud ==
  /\ periodic.stats = "read"
  /\ periodic' = [periodic EXCEPT !.stats = "report"]
  /\ telemetry' = [telemetry EXCEPT !.periodic_stats =
                     ReadFraudDetected(@, fraud_detected_count)]
  /\ UNCHANGED << running, started, is_trained, qvars, wvars, avars, svars,
                  cvars, hvars, fusion, xvars, charges, sync_log, pool >>

\* Mutant of StatsReport: the counters are reset once they are reported.
StatsReportAndReset ==
  /\ periodic.stats = "report"
  /\ periodic' = [periodic EXCEPT !.stats = "loop"]
  /\ telemetry' = [telemetry EXCEPT !.periodic_stats =
                     ReadProcessed(@, processed_count)]
  /\ processed_count' = 0
  /\ fraud_detected_count' = 0
  /\ UNCHANGED << running, started, is_trained, qvars, wvars, avars, svars,
                  hvars, fusion, xvars, charges, sync_log, pool >>

\* _periodic_stats: processed_count is read, the rate computed and logged.
StatsReport ==
  /\ periodic.stats = "report"
  /\ periodic' = [periodic EXCEPT !.stats = "loop"]
  /\ telemetry' = [telemetry EXCEPT !.periodic_stats =
                     ReadProcessed(@, processed_count)]
  /\ UNCHANGED << running, started, is_trained, qvars, wvars, avars, svars,
                  cvars, hvars, fusion, xvars, charges, sync_log, pool >>

\* get_statistics(), called by the application at any time: the same two
\* reads, one after the other.
GetStatisticsRead ==
  /\ ~telemetry.get_statistics.waiting
  /\ telemetry' = [telemetry EXCEPT !.get_statistics =
                     ReadFraudDetected(@, fraud_detected_count)]
  /\ UNCHANGED << running, started, is_trained, qvars, wvars, avars, svars,
                  cvars, hvars, fusion, xvars, pvars, pool >>

GetStatisticsReturn ==
  /\ telemetry.get_statistics.waiting
  /\ telemetry' = [telemetry EXCEPT !.get_statistics =
                     ReadProcessed(@, processed_count)]
  /\ UNCHANGED << running, started, is_trained, qvars, wvars, avars, svars,
                  cvars, hvars, fusion, xvars, pvars, pool >>

\* _sync_external_data, `while self.running:`.
SyncLoop ==
  /\ periodic.sync = "loop"
  /\ periodic' = [periodic EXCEPT !.sync = IF running THEN "fetch"
                                          ELSE "stopped"]
  /\ pool' = IF running THEN pool ELSE [pool EXCEPT !.sync = @ - 1]
  /\ UNCHANGED << running, started, is_trained, qvars, wvars, avars, svars,
                  cvars, hvars, fusion, xvars, charges, sync_log, telemetry >>

\* time.sleep(300), then `if self.stripe_integration.api_key:` and
\* recent_charges = get_recent_charges(limit=50, hours_back=1); without a
\* key there is nothing to examine.
SyncFetch ==
  /\ periodic.sync = "fetch"
  /\ \E cs \in RecentCharges :
       /\ Len(sync_log) + Len(cs) <= MaxSyncLog
       /\ charges' = cs
       /\ periodic' = [periodic EXCEPT !.sync = IF cs = << >> THEN "loop"
                                               ELSE "charge"]
  /\ UNCHANGED << running, started, is_trained, qvars, wvars, avars, svars,
                  cvars, hvars, fusion, xvars, sync_log, tvars >>

\* Position of the row of `id` counted from the newest row; 0 without one.
Recency(rows, id) ==
  IF RowsOf(rows, id) = {} THEN 0
  ELSE Len(rows) + 1 - (CHOOSE i \in RowsOf(rows, id) : TRUE)

\* One round of `for charge in recent_charges:`: the Store is read, and the
\* charge is submitted when its id is not among the ids read.  A charge as
\* _process_stripe_charge builds it has no user_id.
SyncCharge ==
  /\ periodic.sync = "charge"
  /\ LET charge == Head(charges)
         existing == GetRecentTransactions(transactions, SyncLimit)
         add == RowsOf(existing, charge) = {}
     IN  /\ sync_log' = Append(sync_log,
              [transaction_id |-> charge, added |-> add,
               recency |-> Recency(transactions, charge)])
         /\ IF add
            THEN /\ submitted' = Append(submitted,
                      [transaction_id |-> charge, user_id |-> None])
                 /\ transaction_queue' = Append(transaction_queue,
                      [token |-> Len(submitted) + 1, transaction_id |-> charge,
                       user_id |-> None])
            ELSE UNCHANGED << submitted, transaction_queue >>
  /\ charges' = Tail(charges)
  /\ periodic' = [periodic EXCEPT !.sync = IF Len(charges) > 1 THEN "charge"
                                          ELSE "loop"]
  /\ UNCHANGED << running, started, is_trained, alert_queue, wvars, avars,
                  svars, cvars, delivered, alerts_queued, alerts_delivered,
                  completed, fraud_completed, dropped, fusion, xvars, tvars >>

PeriodicNext ==
  \/ Start
  \/ Stop
  \/ StatsLoop
  \/ StatsReadFraud
  \/ StatsReport
  \/ SyncLoop
  \/ SyncFetch
  \/ SyncCharge

SpecPeriodic == PeriodicInit /\ [][PeriodicNext]_vars

\* --------------------------------- telemetry beside the scoring threads
\* The statistics thread and get_statistics() run while the scoring threads
\* update the counters (the alert threads touch neither the counters nor
\* the readings and are left out).
TelemetryNext ==
  \/ Start
  \/ LoadModels
  \/ \E ev \in Events : ScriptAddTransaction(ev.transaction_id, ev.user_id)
  \/ \E w \in Workers :
       \/ WorkerLoop(w)
       \/ WorkerCheckEmpty(w)
       \/ WorkerGet(w)
       \/ WorkerScore(w)
       \/ WorkerPersist(w)
       \/ WorkerAlert(w)
       \/ WorkerReadProcessed(w)
       \/ WorkerWriteProcessed(w)
       \/ WorkerReadFraud(w)
       \/ WorkerWriteFraud(w)
  \/ StatsLoop
  \/ StatsReadFraud
  \/ StatsReport
  \/ GetStatisticsRead
  \/ GetStatisticsReturn

SpecTelemetry == Init /\ [][TelemetryNext]_vars

\* ------------------------------------------- start() and stop() alone
\* start() may be called at any time; the model calls it at most this often.
MaxStarts == 2
\* The kinds of thread start() creates.
ThreadKinds == {"processing", "alert", "stats", "sync"}

\* start(): nothing tells whether the processor is already running; the
\* flag is set and a full set of threads is created and started each time.
\* The position of each thread is abstracted to the number of threads of
\* its kind that are inside their loop.
LifecycleStart ==
  /\ pool.starts < MaxStarts
  /\ running' = TRUE
  /\ started' = TRUE
  /\ pool' = Spawned(pool)
  /\ UNCHANGED << is_trained, qvars, wvars, avars, svars, cvars, hvars,
                  fusion, xvars, pvars, telemetry >>

\* A thread tests `while self.running:`, finds the flag cleared and returns.
ThreadExit(kind) ==
  /\ ~running
  /\ pool[kind] > 0
  /\ pool' = [pool EXCEPT ![kind] = @ - 1]
  /\ UNCHANGED << running, started, is_trained, qvars, wvars, avars, svars,
                  cvars, hvars, fusion, xvars, pvars, telemetry >>

LifecycleNext ==
  \/ LifecycleStart
  \/ Stop
  \/ \E kind \in ThreadKinds : ThreadExit(kind)

SpecLifecycle == Init /\ [][LifecycleNext]_vars

\* ------------------------------------------- the classifier alone
\* Two enriched feature vectors, the three modes of predict_fraud and the
\* readings of the clock.
FeatureVectors == {1, 2}
Modes == {"rf", "svm", "ensemble"}
MaxClock == 1

\* A loaded classifier: what the fitted random forest and the fitted SVM
\* answer for each (scaled) feature vector.  svm_label is SVC.predict, which
\* comes from the decision function and not from predict_proba.
LoadedModels ==
  [rf : [FeatureVectors -> {2000, 8000}],
   svm : [FeatureVectors -> {4000, ONE}],
   svm_label : [FeatureVectors -> BOOLEAN]]

NoPrediction == [is_fraud |-> FALSE, fraud_probability |-> -1,
                 risk_level |-> "None", timestamp |-> -1]

\* FraudDetectionModel._get_risk_level.
ModelRiskLevel(probability) ==
  IF probability < 3000 THEN "Low"
  ELSE IF probability < 7000 THEN "Medium"
  ELSE "High"

\* fraud_prob of the chosen mode.
PredictProba(model, features, mode) ==
  IF mode = "rf" THEN model.rf[features]
  ELSE IF mode = "svm" THEN model.svm[features]
  ELSE (model.rf[features] + model.svm[features]) \div 2

\* prediction of the chosen mode: the forest's majority class, the SVM's
\* label, or fraud_prob > 0.5 for the ensemble.
PredictLabel(model, features, mode) ==
  IF mode = "rf" THEN model.rf[features] > 5000
  ELSE IF mode = "svm" THEN model.svm_label[features]
  ELSE PredictProba(model, features, mode) > 5000

\* Mutant of PredictFraud: the probability carries a noise term seeded by
\* the clock.
PredictFraudSeeded(model, features, mode, now) ==
  [is_fraud |-> PredictLabel(model, features, mode),
   fraud_probability |-> PredictProba(model, features, mode) + now,
   risk_level |-> ModelRiskLevel(PredictProba(model, features, mode) + now),
   timestamp |-> now]

\* predict_fraud on a trained classifier: the result dictionary.
PredictFraud(model, features, mode, now) ==
  [is_fraud |-> PredictLabel(model, features, mode),
   fraud_probability |-> PredictProba(model, features, mode),
   risk_level |-> ModelRiskLevel(PredictProba(model, features, mode)),
   timestamp |-> now]

PredictInit ==
  /\ PipelineInit
  /\ fusion \in [stage : {"predict"}, features : FeatureVectors,
                  mode : Modes, model : LoadedModels, clock : {0},
                  calls : {<< NoPrediction, NoPrediction >>}]

\* One of two callers (two scoring threads, say) calls predict_fraud with
\* the same features and mode.  The call assigns nothing to the classifier;
\* besides its arguments it reads the fitted models and the clock.
PredictCall(c) ==
  /\ fusion.stage = "predict"
  /\ fusion.calls[c] = NoPrediction
  /\ fusion' = [fusion EXCEPT !.calls[c] =
        PredictFraud(fusion.model, fusion.features, fusion.mode, fusion.clock)]
  /\ UNCHANGED << running, started, is_trained, qvars, wvars, avars, svars,
                  cvars, hvars, xvars, pvars, tvars >>

\* Time passes.
PredictTick ==
  /\ fusion.stage = "predict"
  /\ fusion.clock < MaxClock
  /\ fusion' = [fusion EXCEPT !.clock = @ + 1]
  /\ UNCHANGED << running, started, is_trained, qvars, wvars, avars, svars,
                  cvars, hvars, xvars, pvars, tvars >>

PredictNext == PredictTick \/ \E c \in 1..2 : PredictCall(c)

SpecPredict == PredictInit /\ [][PredictNext]_vars

\* ------------------------------------------- the velocity features alone
\* _calculate_velocity_features reads get_recent_transactions(limit=1000);
\* the limit is scaled down, the stored history has up to MaxHistory rows.
VelocityLimit == 2
MaxHistory == 3
\* Another user than User.
OtherUser == 2

\* The columns of a stored row the velocity features look at; `recent` is
\* the outcome of the test
\* datetime.fromisoformat(timestamp) > datetime.now() - timedelta(hours=24).
HistoryRows ==
  [user_id : {User, OtherUser}, amount : {0, 100}, recent : BOOLEAN]

\* Stored histories, oldest row first.
Histories == UNION {[1..n -> HistoryRows] : n \in 0..MaxHistory}

\* sum(amounts).
RECURSIVE SumAmounts(_)
SumAmounts(rows) ==
  IF rows = << >> THEN 0 ELSE Head(rows).amount + SumAmounts(Tail(rows))

\* The rows of `rows` of the user that passed the 24 hour test.
UserRecent(rows, user_id) ==
  SelectSeq(rows, LAMBDA t : t.user_id = user_id /\ t.recent)

\* abs(amount - avg) / max(avg, 1) for avg = total / n, in units of 1/ONE:
\* |amount - total/n| / max(total/n, 1) = |amount*n - total| / max(total, n).
Deviation(amount, total, n) ==
  ((IF amount * n >= total THEN amount * n - total ELSE total - amount * n)
     * ONE) \div (IF total > n THEN total ELSE n)

\* _calculate_velocity_features(transaction_data) over the stored rows.
CalculateVelocityFeatures(user_id, amount, rows) ==
  LET user_recent ==
        UserRecent(GetRecentTransactions(rows, VelocityLimit), user_id)
      n == Len(user_recent)
      total == SumAmounts(user_recent)
  IN  IF n = 0
      THEN [num_transactions_today |-> 1,
            velocity_score |-> 1000,
            amount_deviation |-> 5000]
      ELSE [num_transactions_today |-> n + 1,
            velocity_score |-> Min(n * 1000, ONE),
            amount_deviation |->
               IF total > 0 THEN Deviation(amount, total, n) ELSE 0]

VelocityInit ==
  /\ PipelineInit
  /\ fusion \in [stage : {"event"}, user_id : {User}, amount : {0, 50, 200},
                  rows : Histories]

\* _enrich_transaction_data, the velocity part.
VelocityEnrich ==
  /\ fusion.stage = "event"
  /\ fusion' = [stage |-> "enriched", user_id |-> fusion.user_id,
                amount |-> fusion.amount, rows |-> fusion.rows,
                features |-> CalculateVelocityFeatures(fusion.user_id,
                                fusion.amount, fusion.rows)]
  /\ UNCHANGED << running, started, is_trained, qvars, wvars, avars, svars,
                  cvars, hvars, xvars, pvars, tvars >>

SpecVelocity == VelocityInit /\ [][VelocityEnrich]_vars

\* ------------------------------------------- the paths that store a row
\* The scoring thread, the manual Stripe sync route and the Stripe charge
\* webhook each combine the classifier's probability with the reputation
\* score and store the result.
WritePaths == {"worker", "sync_route", "charge_webhook"}
GridExternal == {0, 1000, 3000, 7000, ONE}

\* webhook_handlers._get_risk_level.
WebhookGetRiskLevel(probability) ==
  IF probability < 3000 THEN "Low"
  ELSE IF probability < 7000 THEN "Medium"
  ELSE "High"

\* sync_stripe_data: the mean of the two scores; the level is written out
\* in the route; is_fraud stays the classifier's (ensemble) label.
SyncStripeResult(internal_probability, combined_risk_score) ==
  LET combined_score == (internal_probability + combined_risk_score) \div 2
  IN  [is_fraud |-> internal_probability > 5000,
       fraud_probability |-> combined_score,
       risk_level |-> IF combined_score > 7000 THEN "High"
                      ELSE IF combined_score > 3000 THEN "Medium"
                      ELSE "Low"]

\* handle_stripe_charge_succeeded: the same mean, the level from
\* _get_risk_level of the module.
ChargeWebhookResult(internal_probability, combined_risk_score) ==
  LET combined_score == (internal_probability + combined_risk_score) \div 2
  IN  [is_fraud |-> internal_probability > 5000,
       fraud_probability |-> combined_score,
       risk_level |-> WebhookGetRiskLevel(combined_score)]

\* The prediction a path hands to insert_transaction.
PathResult(path, internal_probability, combined_risk_score) ==
  IF path = "worker"
  THEN CombineFraudResults(internal_probability, combined_risk_score)
  ELSE IF path = "sync_route"
  THEN SyncStripeResult(internal_probability, combined_risk_score)
  ELSE ChargeWebhookResult(internal_probability, combined_risk_score)

WritePathInit ==
  /\ PipelineInit
  /\ fusion \in [stage : {"scored"}, path : WritePaths,
                  internal : GridProbs, external : GridExternal]

\* db.insert_transaction(transaction_data, prediction) of the path.
WritePathInsert ==
  /\ fusion.stage = "scored"
  /\ transactions' = InsertTransaction(transactions,
        [transaction_id |-> 1, user_id |-> User],
        PathResult(fusion.path, fusion.internal, fusion.external))
  /\ fusion' = [fusion EXCEPT !.stage = "stored"]
  /\ UNCHANGED << running, started, is_trained, qvars, wvars, avars,
                  fraud_alerts, cvars, hvars, xvars, pvars, tvars >>

SpecWritePaths == WritePathInit /\ [][WritePathInsert]_vars

\* =================================================================
\* Properties
\* =================================================================
StoredIds == {transactions[i].transaction_id : i \in 1..Len(transactions)}
AlertsFor(id) == {i \in 1..Len(fraud_alerts) : fraud_alerts[i].transaction_id = id}
InQueue(q, t) == {i \in 1..Len(q) : q[i].token = t}
\* A scoring thread is in the middle of an item.
Processing(w) == pc[w] \in {"process", "persist", "alert", "count",
                            "count_store", "fraud", "fraud_store"}
\* The submitted events are well formed and carry pairwise distinct ids.
DistinctValid ==
  /\ \A i \in 1..Len(submitted) :
       submitted[i].transaction_id # None /\ submitted[i].user_id # None
  /\ \A i, j \in 1..Len(submitted) :
       i # j => submitted[i].transaction_id # submitted[j].transaction_id
\* Nothing is left to pull and no scoring thread can take a step that
\* processes an item: each one is polling with an empty batch, or waits in
\* get() on the empty queue.  Without a further add_transaction no scoring
\* thread will persist anything.
ScoringAtRest ==
  /\ transaction_queue = << >>
  /\ \A w \in Workers :
       \/ pc[w] \in {"loop", "fill"} /\ batch[w] = << >>
       \/ pc[w] = "get"

\* C1: K distinct events enqueued, the workers running, the classifier
\* loaded and no failure: once the scoring threads have come to rest,
\* exactly the K events are persisted, one row each.
C1_AllPersisted ==
  (running /\ is_trained /\ DistinctValid /\ dropped = 0 /\ ScoringAtRest)
    => /\ Len(transactions) = Len(submitted)
       /\ StoredIds = {submitted[i].transaction_id : i \in 1..Len(submitted)}

\* C2: single delivery.  Every event put on the ingestion queue and every
\* alert put on the alert queue is either still in its queue, once, or has
\* been handed out by get() exactly once; it is never in two threads' hands.
C2_SingleDelivery ==
  /\ \A t \in 1..MaxEnqueue :
       /\ Cardinality(InQueue(transaction_queue, t)) + delivered[t]
            = (IF t <= Len(submitted) THEN 1 ELSE 0)
       /\ Cardinality({w \in Workers : InQueue(batch[w], t) # {}}) <= delivered[t]
       /\ \A w \in Workers : Cardinality(InQueue(batch[w], t)) <= 1
  /\ \A t \in 1..MaxEnqueue :
       /\ Cardinality(InQueue(alert_queue, t)) + alerts_delivered[t]
            = (IF t <= alerts_queued THEN 1 ELSE 0)
       /\ Cardinality({a \in AlertWorkers : alert_data[a].token = t})
            <= alerts_delivered[t]

\* C2 witness: both scoring threads hold an event they pulled and an alert
\* thread holds an alert it pulled.
C2_Witness ==
  /\ \A w \in Workers : batch[w] # << >>
  /\ \E a \in AlertWorkers : apc[a] = "send"

\* C3: a batch pull never blocks and returns 0..batch_size items: no thread
\* sits in get() on an empty queue, and no batch exceeds batch_size.
C3_NonBlockingPull ==
  /\ \A w \in Workers :
       /\ Len(batch[w]) <= batch_size
       /\ pc[w] = "get" => transaction_queue # << >>
  /\ \A a \in AlertWorkers : apc[a] = "get" => alert_queue # << >>

\* C4: when no scoring thread is in the middle of an item, processed_count
\* is the number of items that completed and fraud_detected_count the number
\* of those with is_fraud.
C4_CountersExact ==
  (\A w \in Workers : ~Processing(w))
    => /\ processed_count = completed
       /\ fraud_detected_count = fraud_completed

\* All threads have left their loops.
AllStopped ==
  /\ \A w \in Workers : pc[w] = "stopped"
  /\ \A a \in AlertWorkers : apc[a] = "stopped"

\* C5: alert completeness.  No identifier ever has more than one AlertRecord,
\* and once every thread has finished, every stored transaction whose
\* risk_level is High has exactly one.
C5_AlertCompleteness ==
  /\ \A id \in Ids : Cardinality(AlertsFor(id)) <= 1
  /\ AllStopped =>
       \A i \in 1..Len(transactions) :
         transactions[i].risk_level = "High"
           => Cardinality(AlertsFor(transactions[i].transaction_id)) = 1

\* C1 .. C5 above; the alert path and the Store follow.

\* Every alert_data in the pipeline: queued, held by an alert thread, stored.
AlertsInFlight ==
  {alert_queue[i] : i \in 1..Len(alert_queue)}
    \cup {alert_data[a] : a \in {x \in AlertWorkers : alert_data[x] # NoAlert}}

\* C6: an alert task is on the alert queue, in an alert thread's hands or an
\* AlertRecord in the Store only for an assessment whose combined
\* probability (which the alert carries) has risk_level High.
C6_NoAlertBelowHigh ==
  /\ \A x \in AlertsInFlight : GetRiskLevel(x.fraud_probability) = "High"
  /\ \A i \in 1..Len(fraud_alerts) :
       GetRiskLevel(fraud_alerts[i].fraud_probability) = "High"

\* C6 witness: a Medium assessment with is_fraud is stored, its thread is
\* past the alert test, and the only alert in the Store is for another id.
C6_Witness ==
  /\ \E i \in 1..Len(transactions) :
       /\ transactions[i].risk_level = "Medium"
       /\ transactions[i].is_fraud
       /\ AlertsFor(transactions[i].transaction_id) = {}
  /\ Len(fraud_alerts) = 1
  /\ alert_queue = << >>
  /\ \A w \in Workers : pc[w] = "loop"

\* C7: every AlertRecord references a transaction_id that was in the
\* Store's transactions when the alert was persisted.
C7_AlertReferential ==
  \A i \in 1..Len(fraud_alerts) : fraud_alerts[i].txn_stored

\* transaction identifiers are unique in the Store.
UniqueIds ==
  \A i, j \in 1..Len(transactions) :
    transactions[i].transaction_id = transactions[j].transaction_id => i = j

\* C8: insert idempotence.  No step leaves two rows with one identifier; no
\* step changes or removes a stored row; and a scoring thread that leaves the
\* persist step goes on to the alert test, whether its insert added a row or
\* was a no-op (nothing is dropped there).
C8_InsertIdempotent ==
  [][ /\ UniqueIds'
      /\ Len(transactions') >= Len(transactions)
      /\ \A i \in 1..Len(transactions) : transactions'[i] = transactions[i]
      /\ \A w \in Workers :
           (pc[w] = "persist" /\ pc'[w] # "persist")
             => (pc'[w] = "alert" /\ dropped' = dropped) ]_vars

\* C8 witness: both scoring threads have just inserted the same identifier
\* with different assessments; one row is stored.
C8_Witness ==
  /\ \A w \in Workers : pc[w] = "alert"
  /\ Head(batch[1]).transaction_id = Head(batch[2]).transaction_id
  /\ result[1].fraud_probability # result[2].fraud_probability
  /\ Len(transactions) = 1

\* C9: the combined_probability of every assessment lies in [0,1] (and so
\* does the external score it is built from).
C9_RangeInvariant ==
  /\ fusion.stage \in {"analyzed", "combined"}
       => (0 <= fusion.external /\ fusion.external <= ONE)
  /\ fusion.stage = "combined"
       => /\ 0 <= fusion.combined_result.fraud_probability
          /\ fusion.combined_result.fraud_probability <= ONE

\* C9 witness: the largest inputs, every source answering with its maximum.
C9_Witness ==
  /\ fusion.stage = "combined"
  /\ fusion.internal = ONE
  /\ fusion.external = 9400
  /\ fusion.combined_result.fraud_probability = 9760

\* C10: combined = internal * 0.6 + external * 0.4, never above 1.0, and
\* is_fraud exactly when combined > 0.5.
C10_FusionLaw ==
  fusion.stage = "combined" =>
    LET r == fusion.combined_result
    IN  /\ 10 * r.fraud_probability = 6 * fusion.internal + 4 * fusion.external
        /\ r.fraud_probability <= ONE
        /\ r.is_fraud <=> (2 * r.fraud_probability > ONE)

\* C10 witness: combined is exactly 0.5 (0.5 * 0.6 + 0.5 * 0.4), not fraud.
C10_Witness ==
  /\ fusion.stage = "combined"
  /\ fusion.internal = 5000
  /\ fusion.external = 5000
  /\ fusion.combined_result.fraud_probability = 5000
  /\ ~fusion.combined_result.is_fraud

\* C11: for every probability p the risk level is High iff p >= the
\* configured HIGH_RISK_THRESHOLD, Medium iff p lies between the configured
\* LOW_RISK_THRESHOLD (included) and HIGH_RISK_THRESHOLD (excluded), and Low
\* otherwise.
C11_ThresholdLaw ==
  fusion.stage = "levelled" =>
    LET p == fusion.probability
        low == fusion.low_risk_threshold
        high == fusion.high_risk_threshold
    IN  /\ fusion.risk_level = "High" <=> p >= high
        /\ fusion.risk_level = "Medium" <=> (low <= p /\ p < high)
        /\ fusion.risk_level = "Low" <=> p < low

\* The risk score a source contributed to one analysis: 0 when the source is
\* not configured, when its call failed, or (Sift) when the event has no
\* user_id to ask a score for.
Answered(raw, asked) == IF raw >= 0 /\ asked THEN raw * (ONE \div 100) ELSE 0

\* C12: the external score is min(1.0, sum of risk_score * weight) with the
\* fixed weights 0.4 (MaxMind), 0.3 (Sift) and 0.3 (local reputation); a
\* source that is not configured or fails contributes 0 and the weights of
\* the others stay as they are.
C12_ExternalScore ==
  fusion.stage \in {"analyzed", "combined"} =>
    10 * fusion.external =
      Min(10 * ONE,
          4 * Answered(fusion.maxmind, TRUE)
          + 3 * Answered(fusion.sift, fusion.user_id # None)
          + 3 * CheckInternalReputation(fusion.ip_risk, fusion.email_risk))

\* C12 witness (Scenario B): the two remote sources both answer 1.0, the
\* local tables hold no row, and the external score is 0.7.
C12_Witness ==
  /\ fusion.stage = "analyzed"
  /\ fusion.user_id = User
  /\ fusion.maxmind = 100
  /\ fusion.sift = 100
  /\ fusion.ip_risk = NoRow
  /\ fusion.email_risk = NoRow
  /\ fusion.external = 7000

\* The threshold law with the thresholds of _get_risk_level.
LevelOf(level, p) ==
  /\ level = "High" <=> p >= HighThreshold
  /\ level = "Medium" <=> (LowThreshold <= p /\ p < HighThreshold)
  /\ level = "Low" <=> p < LowThreshold

\* C13 as stated: with MaxMind and Sift not configured the external score
\* is 0 whatever the local reputation tables hold, and combined is
\* internal * 0.6.
C13_ScenarioA_AnyRows ==
  (/\ fusion.stage = "combined"
   /\ fusion.maxmind = Unconfigured
   /\ fusion.sift = Unconfigured)
  => /\ fusion.external = 0
     /\ 10 * fusion.combined_result.fraud_probability = 6 * fusion.internal

\* C13 (amended): with MaxMind and Sift not configured the external score is
\* 0.3 times the local reputation score; when the local tables hold no row
\* for the event's ip_address and email it is 0, combined is internal * 0.6
\* and the risk level follows the threshold law on that value.
C13_ScenarioA ==
  (/\ fusion.stage = "combined"
   /\ fusion.maxmind = Unconfigured
   /\ fusion.sift = Unconfigured)
  => /\ 10 * fusion.external
          = 3 * CheckInternalReputation(fusion.ip_risk, fusion.email_risk)
     /\ (fusion.ip_risk = NoRow /\ fusion.email_risk = NoRow)
          => /\ fusion.external = 0
             /\ 10 * fusion.combined_result.fraud_probability
                  = 6 * fusion.internal
             /\ LevelOf(fusion.combined_result.risk_level,
                        fusion.combined_result.fraud_probability)

\* C13 witness: nothing configured, no local row, classifier certain:
\* combined is 0.6 and the level Medium.
C13_Witness ==
  /\ fusion.stage = "combined"
  /\ fusion.maxmind = Unconfigured
  /\ fusion.sift = Unconfigured
  /\ fusion.ip_risk = NoRow
  /\ fusion.email_risk = NoRow
  /\ fusion.internal = ONE
  /\ fusion.combined_result.fraud_probability = 6000
  /\ fusion.combined_result.risk_level = "Medium"

\* C14: the pipeline never runs with the classifier unavailable: no thread
\* has been started, and so no item is dequeued, unless the classifier is
\* trained.
C14_FatalAtStartup ==
  (\/ running
   \/ \E w \in Workers : pc[w] # "unstarted"
   \/ \E a \in AlertWorkers : apc[a] # "unstarted"
   \/ periodic.stats # "unstarted"
   \/ periodic.sync # "unstarted"
   \/ \E t \in 1..MaxEnqueue : delivered[t] > 0)
  => is_trained

\* C15: a step in which the processing of an item fails drops exactly that
\* item: it leaves the batch and goes back to no queue, nothing is stored or
\* counted for it, the rest of the batch is kept and processed next, and the
\* thread goes on (to the next item, or to the next round of its loop).
C15_FailureContained ==
  [][\A w \in Workers :
       (pc[w] = "process" /\ dropped' = dropped + 1 /\ batch'[w] # batch[w])
       => /\ batch'[w] = Tail(batch[w])
          /\ pc'[w] = (IF Tail(batch[w]) # << >> THEN "process" ELSE "loop")
          /\ transaction_queue' = transaction_queue
          /\ alert_queue' = alert_queue
          /\ transactions' = transactions
          /\ processed_count' = processed_count
          /\ fraud_detected_count' = fraud_detected_count]_vars

\* C15 witness: a thread pulled both items, the first one failed and was
\* dropped, and the thread is about to process the second one.
C15_Witness ==
  /\ ~is_trained
  /\ dropped = 1
  /\ \E w \in Workers :
       /\ pc[w] = "process"
       /\ Len(batch[w]) = 1
       /\ Head(batch[w]).token = 2
       /\ \A v \in Workers \ {w} : pc[v] = "fill" /\ batch[v] = << >>
  /\ \A t \in 1..2 : delivered[t] = 1

WellFormed(ev) == ev.transaction_id # None /\ ev.user_id # None

\* C16: an event without transaction_id or without user_id is dropped: when
\* every submitted event is malformed, nothing is stored, no alert is queued
\* and nothing is counted.
C16_MalformedDropped ==
  (\A i \in 1..Len(submitted) : ~WellFormed(submitted[i]))
  => /\ transactions = << >>
     /\ alerts_queued = 0
     /\ completed = 0
     /\ processed_count = 0
     /\ fraud_detected_count = 0

\* C17 as stated: once stop() has cleared the flag no item is dequeued from
\* the ingestion queue any more.  (Run as a script nothing is submitted after
\* stop(), so an item dequeued then was in the queue when the flag flipped.)
C17_QueueAbandoned ==
  [][~running => \A t \in 1..MaxEnqueue : delivered'[t] = delivered[t]]_vars

\* C17 (amended): a thread that tests the flag after stop() pulls nothing
\* more: from the top of its loop it only stops, and its batch (its alert)
\* stays as it is.  A thread that was past the test when the flag flipped
\* finishes its round and may still pull.
C17_NoPullOnceObserved ==
  [][~running =>
       /\ \A w \in Workers :
            pc[w] \in {"loop", "stopped"}
            => pc'[w] \in {"loop", "stopped"} /\ batch'[w] = batch[w]
       /\ \A a \in AlertWorkers :
            apc[a] \in {"loop", "stopped"}
            => apc'[a] \in {"loop", "stopped"}
               /\ alert_data'[a] = alert_data[a]]_vars

\* C17 witness: the flag is cleared, every thread has stopped and an item
\* that nobody pulled is still in the ingestion queue.
C17_Witness ==
  /\ started
  /\ ~running
  /\ AllStopped
  /\ \E i \in 1..Len(transaction_queue) :
       delivered[transaction_queue[i].token] = 0

\* A step of some scoring or alert thread.
ThreadStep ==
  \/ \E w \in Workers :
       \/ WorkerLoop(w)
       \/ WorkerCheckEmpty(w)
       \/ WorkerGet(w)
       \/ WorkerScore(w)
       \/ WorkerPersist(w)
       \/ WorkerAlert(w)
       \/ WorkerReadProcessed(w)
       \/ WorkerWriteProcessed(w)
       \/ WorkerReadFraud(w)
       \/ WorkerWriteFraud(w)
  \/ \E a \in AlertWorkers :
       \/ AlertLoop(a)
       \/ AlertCheckEmpty(a)
       \/ AlertGet(a)
       \/ AlertSend(a)

\* C18: after stop() every thread leaves its loop: as long as some thread
\* has not stopped, some thread can take a step.
C18_Terminates ==
  (started /\ ~running) => (AllStopped \/ ENABLED ThreadStep)

\* C19: handling an alert that can be stored appends its AlertRecord and
\* attempts the email sink and the webhook sink, whether or not the webhook
\* sink fails; and no step ever removes or changes a stored AlertRecord.
C19_SinkIndependence ==
  [][/\ \A a \in AlertWorkers :
          (/\ apc[a] = "send"
           /\ apc'[a] # "send"
           /\ alert_data[a].transaction_id # None)
          => /\ Len(fraud_alerts') = Len(fraud_alerts) + 1
             /\ fraud_alerts'[Len(fraud_alerts')].transaction_id
                  = alert_data[a].transaction_id
             /\ sinks'.email = sinks.email + 1
             /\ sinks'.webhook = sinks.webhook + 1
     /\ Len(fraud_alerts') >= Len(fraud_alerts)
     /\ SubSeq(fraud_alerts', 1, Len(fraud_alerts)) = fraud_alerts]_vars

\* C19 witness: the webhook sink failed for an alert, its AlertRecord is
\* stored and both sinks were attempted.
C19_Witness ==
  /\ sinks.webhook_failed = 1
  /\ sinks.webhook = 1
  /\ sinks.email = 1
  /\ Len(fraud_alerts) = 1

\* C20: a charge is submitted by the sync thread exactly when the Store
\* holds no transaction with its identifier, however many rows it holds.
C20_DedupExact ==
  \A i \in 1..Len(sync_log) :
    sync_log[i].added <=> (sync_log[i].recency = 0)

\* C26: counter ordering.  In every reachable state
\* 0 <= fraud_detected_count <= processed_count, so that the reported fraud
\* rate never exceeds 100%.
C26_CounterOrdering ==
  /\ 0 <= fraud_detected_count
  /\ fraud_detected_count <= processed_count

\* C27: no stranded batch.  A scoring thread that waits in get() on the
\* empty ingestion queue holds no item in its local batch: such an item is
\* passed to processing only if a further item is enqueued.
C27_NoStrandedBatch ==
  \A w \in Workers :
    (pc[w] = "get" /\ transaction_queue = << >>) => batch[w] = << >>

\* The stages of the item a scoring thread works on, and the stage that may
\* follow each one: scored (enriched, classified, fused) at "process",
\* persisted at "persist", alerted at "alert", counted from "count" on; the
\* thread then turns to the next item of the batch or to its loop.
StageOrder ==
  {<< "process", "persist" >>, << "persist", "alert" >>,
   << "alert", "count" >>, << "count", "count_store" >>,
   << "count_store", "fraud" >>, << "fraud", "fraud_store" >>,
   << "count_store", "process" >>, << "count_store", "loop" >>,
   << "fraud_store", "process" >>, << "fraud_store", "loop" >>,
   << "process", "process" >>, << "process", "loop" >>}

\* C21: the stages of a transaction run in order.  A thread moves its item
\* only along scored -> persisted -> [alerted] -> done, or drops it at the
\* scoring stage; when the persist step is left the row of a well-formed
\* item is in the Store; an alert is queued only by a thread whose item has
\* left the persist step, and it is the alert of that item; and no step,
\* a drop included, removes or changes a stored row or a queued alert of
\* another item.
C21_StageOrder ==
  [][/\ \A w \in Workers :
          /\ (Processing(w) /\ << pc[w], batch[w] >> # << pc'[w], batch'[w] >>)
               => << pc[w], pc'[w] >> \in StageOrder
          /\ (pc'[w] = "process" /\ pc[w] # "process")
               => pc[w] \in {"fill", "count_store", "fraud_store"}
          /\ (pc[w] = "persist" /\ pc'[w] = "alert"
                /\ WellFormed(Head(batch[w])))
               => Head(batch[w]).transaction_id \in StoredIds'
     /\ alerts_queued' # alerts_queued
          => \E w \in Workers :
               /\ pc[w] = "alert" /\ pc'[w] = "count"
               /\ alert_queue' = Append(alert_queue,
                     [token |-> alerts_queued',
                      transaction_id |-> Head(batch[w]).transaction_id,
                      fraud_probability |-> result[w].fraud_probability])
               /\ WellFormed(Head(batch[w]))
                    => Head(batch[w]).transaction_id \in StoredIds
     /\ Len(transactions') >= Len(transactions)
     /\ SubSeq(transactions', 1, Len(transactions)) = transactions
     /\ dropped' # dropped
          => /\ transactions' = transactions
             /\ alert_queue' = alert_queue]_vars

\* C21 witness: a thread has scored and persisted a High item, queued its
\* alert and is about to count it.
C21_Witness ==
  \E w \in Workers :
    /\ pc[w] = "count"
    /\ result[w].risk_level = "High"
    /\ Head(batch[w]).transaction_id \in StoredIds
    /\ \E i \in 1..Len(alert_queue) :
         alert_queue[i].transaction_id = Head(batch[w]).transaction_id

\* The two telemetry readers.
Readers == {"periodic_stats", "get_statistics"}

\* C22: telemetry is read-only.  A step of the statistics thread or of
\* get_statistics() leaves both counters, both queues and the Store as they
\* are; the first read takes the current fraud_detected_count, the second
\* one the current processed_count, and the reported rate (in percent) is
\* the fraud count read over max(processed count read, 1).
C22_TelemetryReadOnly ==
  [][(telemetry' # telemetry \/ periodic'.stats # periodic.stats)
       => /\ processed_count' = processed_count
          /\ fraud_detected_count' = fraud_detected_count
          /\ transaction_queue' = transaction_queue
          /\ alert_queue' = alert_queue
          /\ transactions' = transactions
          /\ fraud_alerts' = fraud_alerts
          /\ \A r \in Readers :
               /\ (~telemetry[r].waiting /\ telemetry'[r].waiting)
                    => telemetry'[r].fraud_detected_count
                         = fraud_detected_count
               /\ (telemetry[r].waiting /\ ~telemetry'[r].waiting)
                    => /\ telemetry'[r].fraud_detected_count
                            = telemetry[r].fraud_detected_count
                       /\ telemetry'[r].processed_count = processed_count
                       /\ telemetry'[r].fraud_rate_percent
                            = (telemetry[r].fraud_detected_count * 100)
                                \div (IF processed_count > 1
                                      THEN processed_count ELSE 1)]_vars

\* C22 witness: both readers took a snapshot of one fraud among two
\* processed items while a scoring thread is in the middle of its counter
\* updates.
C22_Witness ==
  /\ \A r \in Readers :
       /\ ~telemetry[r].waiting
       /\ telemetry[r].fraud_detected_count = 1
       /\ telemetry[r].processed_count = 2
       /\ telemetry[r].fraud_rate_percent = 50
  /\ \E w \in Workers : pc[w] \in {"fraud", "fraud_store"}

\* C28: no re-injection after shutdown.  Once stop() has cleared the flag,
\* no step puts a further item on the ingestion queue, wherever the sync
\* thread was in its loop at that moment.
C28_NoReinjection ==
  [][~running => /\ Len(transaction_queue') <= Len(transaction_queue)
                 /\ submitted' = submitted]_vars

\* C29: the sync thread does not enqueue an identifier twice: the ingestion
\* queue never holds two items with the same transaction_id.
C29_NoDoubleEnqueue ==
  \A i, j \in 1..Len(transaction_queue) :
    transaction_queue[i].transaction_id = transaction_queue[j].transaction_id
      => i = j

\* C30: bounded worker pool.  After any sequence of start() and stop() at
\* most max_processing_threads scoring threads and max_alert_threads alert
\* threads are inside their loop, and at most one statistics thread and one
\* sync thread.
C30_BoundedPool ==
  /\ pool.processing <= max_processing_threads
  /\ pool.alert <= max_alert_threads
  /\ pool.stats <= 1
  /\ pool.sync <= 1

\* Both callers have their result.
BothPredicted ==
  /\ fusion.stage = "predict"
  /\ \A c \in 1..2 : fusion.calls[c] # NoPrediction

C24_VelocityFeatures ==
  fusion.stage = "enriched"
  => LET mine == UserRecent(fusion.rows, fusion.user_id)
         count == Len(mine)
     IN  /\ fusion.features.velocity_score = Min(count * 1000, ONE)
         /\ count > 0
              => fusion.features.amount_deviation
                   = Deviation(fusion.amount, SumAmounts(mine), count)

\* C25: on every write path the stored risk_level is the threshold-law
\* level of the stored fraud_probability (Low below 0.3, Medium from 0.3
\* and below 0.7, High from 0.7), the two boundary values included.
C25_StoredLevelConsistent ==
  \A i \in 1..Len(transactions) :
    LevelOf(transactions[i].risk_level, transactions[i].fraud_probability)

====
